---- MODULE Spec2Model ----
(***************************************************************************)
(* A model of nextgen/bcbio/utils.py: the configurable parallel map        *)
(* context manager (cpmap), the output memoizing decorator                 *)
(* (memoize_outfile), race tolerant directory creation (safe_makedir) and  *)
(* the scoped helpers curdir_tmpdir, chdir and tmpfile.                    *)
(***************************************************************************)
EXTENDS Integers, Sequences, FiniteSets, TLC

(***************************************************************************)
(* Bounds of the model.                                                    *)
(***************************************************************************)
MaxCores == 3      \* largest integer passed as cores
MaxStrLen == 1     \* longest string passed as cores (besides "ipython")
MaxItems == 2      \* longest input sequence handed to the mapper
MaxVal == 1        \* items and results range over 0..MaxVal
NumCallers == 2    \* processes calling safe_makedir on the same path
MaxCalls == 2      \* calls of safe_makedir each of them makes
MaxPathLen == 3    \* longest input path given to a memoized function
MaxMemoCalls == 3  \* calls of the memoized function on that input

VARIABLES
    \* ---- cpmap ----
    cores,          \* the cores argument, a tagged Python value
    ipython,        \* the ipython argument
    multiprocessing,\* FALSE when the import at lines 11-15 failed (None)
    pc,             \* "start", "body" (suspended at a yield), "exited", "failed"
    err,            \* the exception that left cpmap or the with block
    mapper,         \* what cpmap yielded: "none", "imap", "pool.imap"
    mecConstructed, \* ipclient.MultiEngineClient() was constructed
    pool,           \* "none", "running", "terminated"
    nworkers,       \* number of live worker processes of the pool
    busy,           \* the task indices the workers are applying f to
    mapcall,        \* the body's call mapper(f, xs): [called, f, xs]
    taskNext,       \* next task index the pool hands to a worker
    cache,          \* results the pool has received: set of [i, v]
    yielded,        \* the results the caller got out of the iterator, in order
    effects,        \* the indices f was applied to, in order of application
    stopped,        \* the iterator raised StopIteration
    \* ---- safe_makedir ----
    dpath,          \* what is at dname: "absent", "dir" or "file"
    optimize,       \* the interpreter runs with -O: assert statements are off
    dpc,            \* caller -> "idle", "create" (line 93), "verify" (line 95)
    dcalls,         \* caller -> calls of safe_makedir it has finished
    atCall,         \* caller -> what was at dname at its existence check
    mkFailed,       \* caller -> os.makedirs raised OSError in its call
    dret,           \* caller -> "none", "returned" or the exception raised
    \* ---- memoize_outfile ----
    inFile,         \* the input path, a sequence of characters
    ext,            \* the extension the decorator was configured with
    outState,       \* the file at out_file: "absent", "empty", "nonempty"
    mlog,           \* one record per call of the wrapper
    \* ---- curdir_tmpdir, chdir, tmpfile ----
    cwd,            \* the working directory of the process
    dstate,         \* directory name -> "absent", "dir" or "file"
    baseState,      \* what is at <cwd>/tmp where curdir_tmpdir is entered
    newDir,         \* the argument of chdir
    curDir,         \* the local cur_dir of chdir
    cwdBefore,      \* the working directory when chdir was entered
    tmpDir,         \* the directory of mkdtemp: "absent", "dir", "full"
    tmpFile,        \* the file of mkstemp is there
    fdOpen,         \* the descriptor of mkstemp is open
    spc,            \* scope -> "out", "in", "exited", "failed"
    how             \* scope -> "none", "normal", "raised": how it was left

mapVars == <<cores, ipython, multiprocessing, pc, err, mapper, mecConstructed,
             pool, nworkers, busy, mapcall, taskNext, cache, yielded, effects,
             stopped>>

dirVars == <<dpath, optimize, dpc, dcalls, atCall, mkFailed, dret>>

memoVars == <<inFile, ext, outState, mlog>>

scopeVars == <<cwd, dstate, baseState, newDir, curDir, cwdBefore, tmpDir,
               tmpFile, fdOpen, spc, how>>

vars == <<mapVars, dirVars, memoVars, scopeVars>>

(***************************************************************************)
(* Python values passed as cores.  Every value is a record of one shape;   *)
(* kind says which field counts: n for "int", n for "float" (there it is   *)
(* the number times ten), s for "str" (a sequence of characters).          *)
(***************************************************************************)
PyInt(n) == [kind |-> "int", n |-> n, s |-> <<>>]
PyFloat(t) == [kind |-> "float", n |-> t, s |-> <<>>]
PyStr(s) == [kind |-> "str", n |-> 0, s |-> s]
PyNone == [kind |-> "None", n |-> 0, s |-> <<>>]

IpythonStr == PyStr(<<"i", "p", "y", "t", "h", "o", "n">>)

Chars == {"1", "2", "x"}

SeqsUpTo(S, n) == UNION {[1..k -> S] : k \in 0..n}

CoresValues ==
    {PyInt(n) : n \in 0..MaxCores}
    \cup {PyFloat(t) : t \in {10, 15, 25}}
    \cup {PyStr(s) : s \in SeqsUpTo(Chars, MaxStrLen)}
    \cup {IpythonStr, PyNone}

DigitVal(c) == IF c = "1" THEN 1 ELSE IF c = "2" THEN 2 ELSE -1

RECURSIVE ParseDigits(_)
ParseDigits(s) ==
    IF s = <<>> THEN 0
    ELSE 10 * ParseDigits(SubSeq(s, 1, Len(s) - 1)) + DigitVal(s[Len(s)])

\* Python's int(x): the integer itself, a float truncated towards zero, a
\* string of digits parsed, TypeError for None, ValueError for other strings.
PyIntOf(c) ==
    CASE c.kind = "int" -> [ok |-> TRUE, v |-> c.n, err |-> "none"]
      [] c.kind = "float" -> [ok |-> TRUE, v |-> c.n \div 10, err |-> "none"]
      [] c.kind = "str" ->
            IF c.s # <<>> /\ \A i \in 1..Len(c.s) : DigitVal(c.s[i]) >= 0
            THEN [ok |-> TRUE, v |-> ParseDigits(c.s), err |-> "none"]
            ELSE [ok |-> FALSE, v |-> 0, err |-> "ValueError"]
      [] OTHER -> [ok |-> FALSE, v |-> 0, err |-> "TypeError"]

Vals == 0..MaxVal
Funcs == [Vals -> Vals]
NoCall == [called |-> FALSE, f |-> [v \in Vals |-> 0], xs |-> <<>>]

\* The same tests with the cluster test made after the integer tests.
CpmapBranchIntFirst(c, ipy) ==
    IF c # IpythonStr /\ ~PyIntOf(c).ok THEN "int-error"
    ELSE IF c # IpythonStr /\ PyIntOf(c).v = 1 THEN "sequential"
    ELSE IF ipy \/ c = IpythonStr THEN "cluster"
    ELSE "multi"

\* The branch of cpmap the arguments select, lines 33, 40 and 42.
CpmapBranch(c, ipy) ==
    IF ipy \/ c = IpythonStr THEN "cluster"
    ELSE IF ~PyIntOf(c).ok THEN "int-error"
    ELSE IF PyIntOf(c).v = 1 THEN "sequential"
    ELSE "multi"

\* The parts of the state a specification does not use stay as they are here.
MapIdle ==
    /\ cores = PyInt(1) /\ ipython = FALSE /\ multiprocessing = TRUE
    /\ pc = "start" /\ err = "none" /\ mapper = "none"
    /\ mecConstructed = FALSE /\ pool = "none" /\ nworkers = 0 /\ busy = {}
    /\ mapcall = NoCall /\ taskNext = 1 /\ cache = {} /\ yielded = <<>>
    /\ effects = <<>> /\ stopped = FALSE

Callers == 1..NumCallers

DirIdle ==
    /\ dpath = "absent" /\ optimize = FALSE
    /\ dpc = [c \in Callers |-> "idle"]
    /\ dcalls = [c \in Callers |-> 0]
    /\ atCall = [c \in Callers |-> "none"]
    /\ mkFailed = [c \in Callers |-> FALSE]
    /\ dret = [c \in Callers |-> "none"]

MemoIdle ==
    /\ inFile = <<>> /\ ext = <<>> /\ outState = "absent" /\ mlog = <<>>

Dirs == {"a", "b", "c"}
Scopes == {"chdir", "tmpdir", "tmpfile"}

ScopeIdle ==
    /\ cwd = "a" /\ dstate = [d \in Dirs |-> "dir"] /\ baseState = "absent"
    /\ newDir = "a" /\ curDir = "a" /\ cwdBefore = "a"
    /\ tmpDir = "absent" /\ tmpFile = FALSE /\ fdOpen = FALSE
    /\ spc = [s \in Scopes |-> "out"]
    /\ how = [s \in Scopes |-> "none"]

MapInit ==
    /\ DirIdle /\ MemoIdle /\ ScopeIdle
    /\ cores \in CoresValues
    /\ ipython \in BOOLEAN
    /\ multiprocessing \in BOOLEAN
    /\ pc = "start"
    /\ err = "none"
    /\ mapper = "none"
    /\ mecConstructed = FALSE
    /\ pool = "none"
    /\ nworkers = 0
    /\ busy = {}
    /\ mapcall = NoCall
    /\ taskNext = 1
    /\ cache = {}
    /\ yielded = <<>>
    /\ effects = <<>>
    /\ stopped = FALSE

\* cpmap raised before reaching a yield: the with block is never entered.
Fail(e) ==
    /\ pc' = "failed"
    /\ err' = e
    /\ UNCHANGED <<mapper, mecConstructed, pool, nworkers, busy>>

\* with cpmap(cores, ipython) as mapper: the generator runs up to its yield.
\* Line 34 raises before lines 35-39, which are never reached.
Enter ==
    /\ pc = "start"
    /\ LET b == CpmapBranch(cores, ipython) IN
        CASE b = "cluster" -> Fail("NotImplementedError")
          [] b = "int-error" -> Fail(PyIntOf(cores).err)
          [] b = "sequential" ->
                /\ pc' = "body"
                /\ mapper' = "imap"
                /\ UNCHANGED <<err, mecConstructed, pool, nworkers, busy>>
          [] OTHER ->
                IF ~multiprocessing THEN Fail("ImportError")
                ELSE IF PyIntOf(cores).v < 1 THEN Fail("ValueError")
                ELSE /\ pc' = "body"
                     /\ mapper' = "pool.imap"
                     /\ pool' = "running"
                     /\ nworkers' = PyIntOf(cores).v
                     /\ busy' = {}
                     /\ UNCHANGED <<err, mecConstructed>>
    /\ UNCHANGED <<cores, ipython, multiprocessing, mapcall, taskNext, cache,
                   yielded, effects, stopped>>
    /\ UNCHANGED <<dirVars, memoVars, scopeVars>>

\* The body calls mapper(f, xs).  Both imap flavours are lazy: nothing is
\* applied by the call itself.
CallMap ==
    /\ pc = "body"
    /\ ~mapcall.called
    /\ \E f \in Funcs, xs \in SeqsUpTo(Vals, MaxItems) :
          mapcall' = [called |-> TRUE, f |-> f, xs |-> xs]
    /\ UNCHANGED <<cores, ipython, multiprocessing, pc, err, mapper,
                   mecConstructed, pool, nworkers, busy, taskNext, cache, yielded,
                   effects, stopped>>
    /\ UNCHANGED <<dirVars, memoVars, scopeVars>>

\* An imap that walks its input from the far end.
ImapNextIndexReversed == Len(mapcall.xs) - Len(yielded)

\* The item itertools.imap takes next: the one after those already mapped.
ImapNextIndex == Len(yielded) + 1

\* itertools.imap: next() applies f to the next item and returns the result.
SeqNext ==
    /\ pc = "body"
    /\ mapper = "imap"
    /\ mapcall.called
    /\ Len(yielded) < Len(mapcall.xs)
    /\ LET i == ImapNextIndex IN
          /\ effects' = Append(effects, i)
          /\ yielded' = Append(yielded, mapcall.f[mapcall.xs[i]])
    /\ UNCHANGED <<cores, ipython, multiprocessing, pc, err, mapper,
                   mecConstructed, pool, nworkers, busy, mapcall, taskNext, cache,
                   stopped>>
    /\ UNCHANGED <<dirVars, memoVars, scopeVars>>

\* An idle pool worker takes the next task off the task queue.
WorkerTake ==
    /\ pool = "running"
    /\ mapcall.called
    /\ Cardinality(busy) < nworkers
    /\ taskNext <= Len(mapcall.xs)
    /\ busy' = busy \cup {taskNext}
    /\ taskNext' = taskNext + 1
    /\ UNCHANGED <<cores, ipython, multiprocessing, pc, err, mapper,
                   mecConstructed, pool, nworkers, mapcall, cache, yielded,
                   effects, stopped>>
    /\ UNCHANGED <<dirVars, memoVars, scopeVars>>

\* The worker on task i applies f to its item and sends the result back.
WorkerDone(i) ==
    /\ pool = "running"
    /\ i \in busy
    /\ effects' = Append(effects, i)
    /\ cache' = cache \cup {[i |-> i, v |-> mapcall.f[mapcall.xs[i]]]}
    /\ busy' = busy \ {i}
    /\ UNCHANGED <<cores, ipython, multiprocessing, pc, err, mapper,
                   mecConstructed, pool, nworkers, mapcall, taskNext, yielded,
                   stopped>>
    /\ UNCHANGED <<dirVars, memoVars, scopeVars>>

\* An iterator that hands results out in the order of their arrival, as
\* pool.imap_unordered does.
ImapReadyUnordered ==
    {r \in cache : Len(effects) > Len(yielded)
                      /\ r.i = effects[Len(yielded) + 1]}

\* The result a call of IMapIterator.next can return now: pool.imap hands
\* out the result of item number Len(yielded) + 1 once it has arrived.
ImapReady == {r \in cache : r.i = Len(yielded) + 1}

\* IMapIterator.next under the body's loop.
PoolNext ==
    /\ pc = "body"
    /\ mapper = "pool.imap"
    /\ mapcall.called
    /\ \E r \in ImapReady : yielded' = Append(yielded, r.v)
    /\ UNCHANGED <<cores, ipython, multiprocessing, pc, err, mapper,
                   mecConstructed, pool, nworkers, busy, mapcall, taskNext, cache,
                   effects, stopped>>
    /\ UNCHANGED <<dirVars, memoVars, scopeVars>>

\* The iterator is exhausted: next() raises StopIteration, the loop ends.
MapStop ==
    /\ pc = "body"
    /\ mapcall.called
    /\ ~stopped
    /\ Len(yielded) = Len(mapcall.xs)
    /\ stopped' = TRUE
    /\ UNCHANGED <<cores, ipython, multiprocessing, pc, err, mapper,
                   mecConstructed, pool, nworkers, busy, mapcall, taskNext, cache,
                   yielded, effects>>
    /\ UNCHANGED <<dirVars, memoVars, scopeVars>>

\* A generator whose code after the yield runs on a normal exit only.
AfterYieldRunsNormalOnly(inTry, h) == h = "normal"

\* contextlib.contextmanager: on a normal exit of the with block the
\* generator is resumed after its yield; on a raise the exception is thrown
\* into the generator at the yield, and code after the yield runs only when
\* the yield is inside a try with a finally.
AfterYieldRuns(inTry, h) == h = "normal" \/ inTry

\* The with block of cpmap is left, normally or by a raise.  No yield of
\* cpmap is inside a try; line 53 follows the yield of the pool branch.
BodyLeave(h) ==
    /\ pc = "body"
    /\ pc' = "exited"
    /\ err' = IF h = "raised" THEN "BodyError" ELSE err
    /\ IF mapper = "pool.imap" /\ AfterYieldRuns(FALSE, h)
       THEN /\ pool' = "terminated"
            /\ nworkers' = 0
            /\ busy' = {}
       ELSE UNCHANGED <<pool, nworkers, busy>>
    /\ UNCHANGED <<cores, ipython, multiprocessing, mapper, mecConstructed,
                   mapcall, taskNext, cache, yielded, effects, stopped>>
    /\ UNCHANGED <<dirVars, memoVars, scopeVars>>

BodyExit == BodyLeave("normal")

BodyRaise == BodyLeave("raised")

MapNext ==
    \/ Enter
    \/ CallMap
    \/ SeqNext
    \/ WorkerTake
    \/ \E i \in busy : WorkerDone(i)
    \/ PoolNext
    \/ MapStop
    \/ BodyExit
    \/ BodyRaise

SpecMap == MapInit /\ [][MapNext]_vars

(***************************************************************************)
(* Properties of cpmap.                                                    *)
(***************************************************************************)
Mapped(k) == [i \in 1..k |-> mapcall.f[mapcall.xs[i]]]

\* C1: in multi-process mode the pool is terminated, and none of its
\* workers is left, on every way out of the with block, a raise included.
PoolTerminatedOnEveryExit ==
    (pc = "exited" /\ mapper = "pool.imap")
        => (pool = "terminated" /\ nworkers = 0 /\ busy = {})

\* C2: in multi-process mode the results come out of the iterator in input
\* order, [f(x1)..f(xn)], whatever order the workers finish in.
PoolImapInInputOrder ==
    mapper = "pool.imap" =>
        /\ Len(yielded) <= Len(mapcall.xs)
        /\ yielded = Mapped(Len(yielded))
        /\ stopped => yielded = Mapped(Len(mapcall.xs))

\* Two workers finished out of input order and the results still came out.
PoolImapOutOfOrderDone ==
    /\ mapper = "pool.imap"
    /\ stopped
    /\ Len(mapcall.xs) >= 2
    /\ effects[1] # 1
    /\ yielded[1] # yielded[2]

ClusterRequested == ipython \/ cores = IpythonStr

SequentialInOrder ==
    mapper = "imap" =>
        /\ pool = "none" /\ nworkers = 0 /\ busy = {}
        /\ Len(yielded) <= Len(mapcall.xs)
        /\ effects = [i \in 1..Len(yielded) |-> i]
        /\ yielded = Mapped(Len(yielded))
        /\ stopped => yielded = Mapped(Len(mapcall.xs))

SequentialDone ==
    /\ mapper = "imap"
    /\ stopped
    /\ Len(mapcall.xs) >= 2
    /\ yielded[1] # yielded[2]

\* A cores value that is no integer, not the cluster keyword and not a
\* string of digits.
InvalidCores(c) ==
    /\ c # IpythonStr
    /\ \/ c.kind = "None"
       \/ c.kind = "float" /\ c.n % 10 # 0
       \/ c.kind = "str" /\ ~PyIntOf(c).ok

\* C9: an invalid cores value ends in a TypeError or a ValueError and no
\* mapper is yielded for it.
InvalidCoresRejected ==
    (~ipython /\ InvalidCores(cores)) =>
        /\ pc \in {"start", "failed"}
        /\ pc = "failed" => err \in {"TypeError", "ValueError"}
        /\ mapper = "none"


(***************************************************************************)
(* safe_makedir, lines 86-95, called by NumCallers processes on one path.  *)
(* Another process may put a regular file at the path while it is absent.  *)
(***************************************************************************)
DirInit ==
    /\ MapIdle /\ MemoIdle /\ ScopeIdle
    /\ dpath \in {"absent", "dir", "file"}
    /\ optimize \in BOOLEAN
    /\ dpc = [c \in Callers |-> "idle"]
    /\ dcalls = [c \in Callers |-> 0]
    /\ atCall = [c \in Callers |-> "none"]
    /\ mkFailed = [c \in Callers |-> FALSE]
    /\ dret = [c \in Callers |-> "none"]

\* The call of caller c ends with result r.
MakedirEnds(c, r) ==
    /\ dpc' = [dpc EXCEPT ![c] = "idle"]
    /\ dcalls' = [dcalls EXCEPT ![c] = @ + 1]
    /\ dret' = [dret EXCEPT ![c] = r]

\* Line 89: if not os.path.exists(dname).  A file at dname exists too.
MakedirCheck(c) ==
    /\ dpc[c] = "idle"
    /\ dcalls[c] < MaxCalls
    /\ atCall' = [atCall EXCEPT ![c] = dpath]
    /\ mkFailed' = [mkFailed EXCEPT ![c] = FALSE]
    /\ IF dpath # "absent"
       THEN MakedirEnds(c, "returned")
       ELSE /\ dpc' = [dpc EXCEPT ![c] = "create"]
            /\ dret' = [dret EXCEPT ![c] = "none"]
            /\ UNCHANGED dcalls
    /\ UNCHANGED <<dpath, optimize>>
    /\ UNCHANGED <<mapVars, memoVars, scopeVars>>

\* safe_makedir without the try: the OSError of os.makedirs leaves the call.
OnMakedirsErrorUncaught(c) ==
    /\ MakedirEnds(c, "OSError")
    /\ mkFailed' = [mkFailed EXCEPT ![c] = TRUE]

\* Line 94: the OSError of os.makedirs is caught, the assert comes next.
OnMakedirsError(c) ==
    /\ dpc' = [dpc EXCEPT ![c] = "verify"]
    /\ mkFailed' = [mkFailed EXCEPT ![c] = TRUE]
    /\ UNCHANGED <<dcalls, dret>>

\* Line 93: os.makedirs(dname) creates the directory, or raises OSError
\* when something is at dname by now.
MakedirCreate(c) ==
    /\ dpc[c] = "create"
    /\ IF dpath = "absent"
       THEN /\ dpath' = "dir"
            /\ MakedirEnds(c, "returned")
            /\ UNCHANGED mkFailed
       ELSE /\ OnMakedirsError(c)
            /\ UNCHANGED dpath
    /\ UNCHANGED <<optimize, atCall>>
    /\ UNCHANGED <<mapVars, memoVars, scopeVars>>

\* Line 95: assert os.path.isdir(dname); under -O the statement is gone.
MakedirVerify(c) ==
    /\ dpc[c] = "verify"
    /\ IF optimize \/ dpath = "dir"
       THEN MakedirEnds(c, "returned")
       ELSE MakedirEnds(c, "AssertionError")
    /\ UNCHANGED <<dpath, optimize, atCall, mkFailed>>
    /\ UNCHANGED <<mapVars, memoVars, scopeVars>>

\* Another process creates a regular file at the path.
OtherCreatesFile ==
    /\ dpath = "absent"
    /\ dpath' = "file"
    /\ UNCHANGED <<optimize, dpc, dcalls, atCall, mkFailed, dret>>
    /\ UNCHANGED <<mapVars, memoVars, scopeVars>>

DirNext ==
    \/ \E c \in Callers : MakedirCheck(c)
    \/ \E c \in Callers : MakedirCreate(c)
    \/ \E c \in Callers : MakedirVerify(c)
    \/ OtherCreatesFile

SpecDir == DirInit /\ [][DirNext]_vars

\* C4: as long as no regular file is at the path, no call of safe_makedir
\* fails, in any interleaving of the callers' checks and creates, and once
\* a call has returned the directory is there.
SafeMakedirIdempotent ==
    dpath # "file" =>
        \A c \in Callers :
            /\ dret[c] \in {"none", "returned"}
            /\ dcalls[c] > 0 => dpath = "dir"

\* One caller lost the race, its os.makedirs raised and the assert let it
\* pass, while another called twice in a row; nobody failed.
SafeMakedirRaceLost ==
    /\ ~optimize
    /\ dpath = "dir"
    /\ \E c \in Callers : mkFailed[c] /\ dret[c] = "returned"
    /\ \E c \in Callers : dcalls[c] = MaxCalls /\ dret[c] = "returned"

\* C5: a call made while a regular file is at the path fails.
FileAtPathCallFails ==
    \A c \in Callers : atCall[c] = "file" => dret[c] # "returned"

\* C10: when the path was absent at the check, os.makedirs raised and the
\* path is no directory afterwards, the caller gets that OSError.
OriginalOSErrorReachesCaller ==
    \A c \in Callers :
        (atCall[c] = "absent" /\ mkFailed[c] /\ dpc[c] = "idle"
            /\ dpath # "dir") => dret[c] = "OSError"

(***************************************************************************)
(* memoize_outfile, lines 63-84.                                           *)
(***************************************************************************)
PathChars == {"a", ".", "/"}
Exts == {<<".", "a">>, <<".", "o">>}

\* str.rfind on a one character needle; positions count from 1, 0 is
\* Python's -1.
RFind(p, ch) ==
    LET hits == {i \in 1..Len(p) : p[i] = ch}
    IN IF hits = {} THEN 0 ELSE CHOOSE i \in hits : \A j \in hits : j <= i

\* os.path.splitext: the extension starts at the last dot of the last path
\* component, unless only dots come before it in that component.
Splitext(p) ==
    LET sepIndex == RFind(p, "/")
        dotIndex == RFind(p, ".")
    IN IF /\ dotIndex > sepIndex
          /\ \E k \in (sepIndex + 1)..(dotIndex - 1) : p[k] # "."
       THEN <<SubSeq(p, 1, dotIndex - 1), SubSeq(p, dotIndex, Len(p))>>
       ELSE <<p, <<>>>>

\* Line 78: out_file = "%s%s" % (os.path.splitext(in_file)[0], ext)
OutFile(in, e) == Splitext(in)[1] \o e

\* A test that looks at existence only.
MustRunIfAbsent(st) == st = "absent"

\* Line 79: not os.path.exists(out_file) or os.path.getsize(out_file) == 0
MustRun(st) == st = "absent" \/ st = "empty"

MemoInit ==
    /\ MapIdle /\ DirIdle /\ ScopeIdle
    /\ inFile \in SeqsUpTo(PathChars, MaxPathLen) \ {<<>>}
    /\ ext \in Exts
    /\ outState \in {"absent", "empty", "nonempty"}
    /\ mlog = <<>>

\* What a run of the wrapped function may leave at out_file: a file with
\* content, an empty file, what was there before; or it raises.
FOutcomes == {"writes", "writes-empty", "leaves", "raises"}

AfterF(st, o) ==
    CASE o = "writes" -> "nonempty"
      [] o = "writes-empty" -> "empty"
      [] OTHER -> st

\* One call of the wrapper, lines 73-82.
MemoCall ==
    /\ Len(mlog) < MaxMemoCalls
    /\ LET out_file == OutFile(inFile, ext) IN
        IF MustRun(outState)
        THEN \E o \in FOutcomes :
                /\ outState' = AfterF(outState, o)
                /\ mlog' = Append(mlog, [pre |-> outState, invoked |-> TRUE,
                                         raised |-> o = "raises",
                                         ret |-> IF o = "raises" THEN <<>>
                                                 ELSE out_file])
        ELSE /\ mlog' = Append(mlog, [pre |-> outState, invoked |-> FALSE,
                                      raised |-> FALSE, ret |-> out_file])
             /\ UNCHANGED outState
    /\ UNCHANGED <<inFile, ext>>
    /\ UNCHANGED <<mapVars, dirVars, scopeVars>>

\* Between calls something else removes or truncates the output file.
OutputRemoved ==
    /\ outState # "absent"
    /\ outState' = "absent"
    /\ UNCHANGED <<inFile, ext, mlog>>
    /\ UNCHANGED <<mapVars, dirVars, scopeVars>>

OutputTruncated ==
    /\ outState = "nonempty"
    /\ outState' = "empty"
    /\ UNCHANGED <<inFile, ext, mlog>>
    /\ UNCHANGED <<mapVars, dirVars, scopeVars>>

MemoNext ==
    \/ MemoCall
    \/ OutputRemoved
    \/ OutputTruncated

SpecMemo == MemoInit /\ [][MemoNext]_vars

\* The positions of inFile where its extension may start: a dot of the
\* last component with no dot after it and a character other than a dot
\* before it in that component.
ExtStarts ==
    {d \in 1..Len(inFile) :
        /\ inFile[d] = "."
        /\ \A j \in (d + 1)..Len(inFile) : inFile[j] \notin {".", "/"}
        /\ \E k \in 1..(d - 1) :
              /\ inFile[k] \notin {".", "/"}
              /\ \A j \in k..d : inFile[j] # "/"}

\* The input path with its extension, if it has one, replaced by ext.
DerivedOut ==
    IF ExtStarts = {} THEN inFile \o ext
    ELSE SubSeq(inFile, 1, (CHOOSE d \in ExtStarts : TRUE) - 1) \o ext

ScopeInit ==
    /\ MapIdle /\ DirIdle /\ MemoIdle
    /\ cwd \in Dirs
    /\ dstate \in {ds \in [Dirs -> {"absent", "dir", "file"}] : ds[cwd] = "dir"}
    /\ baseState \in {"absent", "dir", "file"}
    /\ newDir \in Dirs
    /\ curDir = cwd
    /\ cwdBefore = cwd
    /\ tmpDir = "absent"
    /\ tmpFile = FALSE
    /\ fdOpen = FALSE
    /\ spc = [s \in Scopes |-> "out"]
    /\ how = [s \in Scopes |-> "none"]

\* safe_makedir with nobody else at the path: what is at the path after it.
AfterSafeMakedir(st) == IF st = "absent" THEN "dir" ELSE st

\* Lines 116-120: chdir up to its yield.  os.chdir raises OSError when
\* new_dir is a regular file, and the with block is not entered.
ChdirEnter ==
    /\ spc["chdir"] = "out"
    /\ curDir' = cwd
    /\ cwdBefore' = cwd
    /\ dstate' = [dstate EXCEPT ![newDir] = AfterSafeMakedir(@)]
    /\ IF dstate'[newDir] = "dir"
       THEN /\ cwd' = newDir
            /\ spc' = [spc EXCEPT !["chdir"] = "in"]
       ELSE /\ spc' = [spc EXCEPT !["chdir"] = "failed"]
            /\ UNCHANGED cwd
    /\ UNCHANGED <<baseState, newDir, tmpDir, tmpFile, fdOpen, how>>
    /\ UNCHANGED <<mapVars, dirVars, memoVars>>

\* The body of the chdir block changes the working directory itself.
ChdirBodyMoves(d) ==
    /\ spc["chdir"] = "in"
    /\ dstate[d] = "dir"
    /\ cwd' = d
    /\ UNCHANGED <<dstate, baseState, newDir, curDir, cwdBefore, tmpDir,
                   tmpFile, fdOpen, spc, how>>
    /\ UNCHANGED <<mapVars, dirVars, memoVars>>

\* Lines 121-122: the chdir block is left; the yield is inside a try.
ChdirLeave(h) ==
    /\ spc["chdir"] = "in"
    /\ spc' = [spc EXCEPT !["chdir"] = "exited"]
    /\ how' = [how EXCEPT !["chdir"] = h]
    /\ IF AfterYieldRuns(TRUE, h) THEN cwd' = curDir ELSE UNCHANGED cwd
    /\ UNCHANGED <<dstate, baseState, newDir, curDir, cwdBefore, tmpDir,
                   tmpFile, fdOpen>>
    /\ UNCHANGED <<mapVars, dirVars, memoVars>>

\* Lines 101-106: curdir_tmpdir up to its yield.  tempfile.mkdtemp raises
\* OSError when <cwd>/tmp is a regular file.
TmpdirEnter ==
    /\ spc["tmpdir"] = "out"
    /\ baseState' = AfterSafeMakedir(baseState)
    /\ IF baseState' = "dir"
       THEN /\ tmpDir' = "dir"
            /\ spc' = [spc EXCEPT !["tmpdir"] = "in"]
       ELSE /\ spc' = [spc EXCEPT !["tmpdir"] = "failed"]
            /\ UNCHANGED tmpDir
    /\ UNCHANGED <<cwd, dstate, newDir, curDir, cwdBefore, tmpFile, fdOpen,
                   how>>
    /\ UNCHANGED <<mapVars, dirVars, memoVars>>

\* The body writes files into the temporary directory.
TmpdirBodyFills ==
    /\ spc["tmpdir"] = "in"
    /\ tmpDir = "dir"
    /\ tmpDir' = "full"
    /\ UNCHANGED <<cwd, dstate, baseState, newDir, curDir, cwdBefore,
                   tmpFile, fdOpen, spc, how>>
    /\ UNCHANGED <<mapVars, dirVars, memoVars>>

\* Lines 107-108: the block is left; shutil.rmtree removes the directory
\* with what is in it.
TmpdirLeave(h) ==
    /\ spc["tmpdir"] = "in"
    /\ spc' = [spc EXCEPT !["tmpdir"] = "exited"]
    /\ how' = [how EXCEPT !["tmpdir"] = h]
    /\ IF AfterYieldRuns(TRUE, h) THEN tmpDir' = "absent"
       ELSE UNCHANGED tmpDir
    /\ UNCHANGED <<cwd, dstate, baseState, newDir, curDir, cwdBefore,
                   tmpFile, fdOpen>>
    /\ UNCHANGED <<mapVars, dirVars, memoVars>>

\* Lines 128-130: tempfile.mkstemp creates the file and opens it.
TmpfileEnter ==
    /\ spc["tmpfile"] = "out"
    /\ tmpFile' = TRUE
    /\ fdOpen' = TRUE
    /\ spc' = [spc EXCEPT !["tmpfile"] = "in"]
    /\ UNCHANGED <<cwd, dstate, baseState, newDir, curDir, cwdBefore, tmpDir,
                   how>>
    /\ UNCHANGED <<mapVars, dirVars, memoVars>>

\* The body removes or renames the temporary file.
TmpfileBodyRemoves ==
    /\ spc["tmpfile"] = "in"
    /\ tmpFile
    /\ tmpFile' = FALSE
    /\ UNCHANGED <<cwd, dstate, baseState, newDir, curDir, cwdBefore, tmpDir,
                   fdOpen, spc, how>>
    /\ UNCHANGED <<mapVars, dirVars, memoVars>>

\* Lines 131-134: the block is left; the descriptor is closed and the file
\* removed if it is still there.
TmpfileLeave(h) ==
    /\ spc["tmpfile"] = "in"
    /\ spc' = [spc EXCEPT !["tmpfile"] = "exited"]
    /\ how' = [how EXCEPT !["tmpfile"] = h]
    /\ IF AfterYieldRuns(TRUE, h)
       THEN /\ fdOpen' = FALSE
            /\ tmpFile' = FALSE
       ELSE UNCHANGED <<fdOpen, tmpFile>>
    /\ UNCHANGED <<cwd, dstate, baseState, newDir, curDir, cwdBefore, tmpDir>>
    /\ UNCHANGED <<mapVars, dirVars, memoVars>>

Hows == {"normal", "raised"}

ScopeNext ==
    \/ ChdirEnter
    \/ \E d \in Dirs : ChdirBodyMoves(d)
    \/ \E h \in Hows : ChdirLeave(h)
    \/ TmpdirEnter
    \/ TmpdirBodyFills
    \/ \E h \in Hows : TmpdirLeave(h)
    \/ TmpfileEnter
    \/ TmpfileBodyRemoves
    \/ \E h \in Hows : TmpfileLeave(h)

SpecScope == ScopeInit /\ [][ScopeNext]_vars

\* C7: once a block of curdir_tmpdir, tmpfile or chdir has been left,
\* normally or by a raise, the temporary directory is gone, the temporary
\* file is gone and its descriptor closed, and the working directory is
\* the one from before the block.
ScopedResourcesReleased ==
    /\ spc["tmpdir"] = "exited" => tmpDir = "absent"
    /\ spc["tmpfile"] = "exited" => (~tmpFile /\ ~fdOpen)
    /\ spc["chdir"] = "exited" => cwd = cwdBefore

\* All three blocks were left by a raise, after chdir had moved the process
\* to another directory.
ScopesLeftByRaise ==
    /\ \A s \in Scopes : spc[s] = "exited" /\ how[s] = "raised"
    /\ newDir # cwdBefore

====
